---- MODULE Spec2Model ----
(***************************************************************************)
(* Model of Reverse/main.cpp: the Control base class, the ControlContainer *)
(* dispatch loops, the TextBox / Label / Button controls and the           *)
(* UserInterface wiring (a TextBox whose change callback writes its        *)
(* reversed text into a Label).                                            *)
(*                                                                         *)
(* controls : ControlContainer::_controls, in insertion order.  Each       *)
(*            element holds the fields of one Control object (and of its   *)
(*            TextBox / Label subclass).                                   *)
(* last     : the window message WndProc dispatched last (observation).    *)
(* trace    : the virtual calls and callback invocations made while that   *)
(*            message was handled, in call order (observation).            *)
(* calls    : the member functions called directly on a control (OnChar,   *)
(*            OnKeyDown, WhenClick, WhenChange), with the number of change *)
(*            callbacks each one fired (observation).                      *)
(* hit      : one evaluation of PointInRectangle: arguments and result.    *)
(***************************************************************************)
EXTENDS Integers, Sequences, FiniteSets, TLC

VARIABLES controls, last, trace, calls, hit

vars == <<controls, last, trace, calls, hit>>

\* ------------------------------------------------------------------ bounds
\* PointInRectangle is evaluated on coordinates 0..MaxCoord on both axes.
MaxCoord == 3
\* The container holds at most MaxControls controls.
MaxControls == 2
\* Text typed through the container is at most MaxText characters long.
MaxText == 1
\* Text typed in the UserInterface application is at most MaxUIText long.
MaxUIText == 3
\* At most MaxCalls member functions are called directly on a TextBox.
MaxCalls == 4
\* At most MaxRegistrations callbacks are registered on a control.
MaxRegistrations == 3

\* ------------------------------------------------------------- Win32 values
\* '\b' as a wchar_t, and the virtual key code VK_BACK of <windows.h>.
Backspace == 8
VK_BACK == 8

\* WM_CHAR payloads: 'a' and backspace; WM_KEYDOWN payloads: VK_BACK and
\* VK_RETURN (13).
Chars == {97, Backspace}
Keys == {VK_BACK, 13}
\* The characters of the UserInterface scenario: 'c', 'a', 't' and backspace.
UIChars == {99, 97, 116, Backspace}

Coords == 0..MaxCoord
Points == [x : Coords, y : Coords]

\* D2D1::RectF(left, top, right, bottom)
RectF(l, t, r, b) == [left |-> l, top |-> t, right |-> r, bottom |-> b]

\* --------------------------------------------------------------- hit test
\* The implicit conversion of an unsigned coordinate to float in the
\* comparisons of PointInRectangle: exact up to 2^24, rounded to a 24 bit
\* mantissa (to nearest, ties to even) above.
ToFloat(u) ==
  IF u <= 16777216 THEN u
  ELSE LET e   == CHOOSE k \in 1..7 : u \div (2^(23 + k)) = 1
           ulp == 2^e
           q   == u \div ulp
           r   == u % ulp
       IN  IF 2 * r < ulp THEN q * ulp
           ELSE IF 2 * r > ulp THEN (q + 1) * ulp
           ELSE IF q % 2 = 0 THEN q * ulp ELSE (q + 1) * ulp

PointInRectangle_EdgeInside(rectangle, point) ==
  /\ rectangle.top < ToFloat(point.y)
  /\ rectangle.bottom > ToFloat(point.y)
  /\ rectangle.left <= ToFloat(point.x)
  /\ rectangle.right > ToFloat(point.x)

PointInRectangle(rectangle, point) ==
  /\ rectangle.top < ToFloat(point.y)
  /\ rectangle.bottom > ToFloat(point.y)
  /\ rectangle.left < ToFloat(point.x)
  /\ rectangle.right > ToFloat(point.x)

\* ------------------------------------------------------------ class Control
\* std::function values: the default []() {} and the lambda of UserInterface,
\* which captures the TextBox (input) and the Label (output) by pointer.
NoOp == [fn |-> "noop", input |-> 0, output |-> 0]
ReverseLambda(input, output) == [fn |-> "reverse", input |-> input, output |-> output]

\* The fields of a freshly constructed Control of the given class.
Control(kind, area) ==
  [kind |-> kind, area |-> area,
   onHover |-> FALSE, onClick |-> FALSE, onFocus |-> FALSE,
   clickEvent |-> NoOp, changeEvent |-> NoOp,
   text |-> <<>>]

IsHover(c) == c.onHover
IsClicked(c) == c.onClick
IsFocused(c) == c.onFocus
Area(c) == c.area

\* A handler's running state: st.cs are the controls, st.tr the calls made.
Enter(st, name, i, a) ==
  [st EXCEPT !.tr = Append(@, [call |-> name, target |-> i, arg |-> a])]

\* std::reverse(text.begin(), text.end())
RECURSIVE Reverse(_)
Reverse(s) == IF s = <<>> THEN <<>> ELSE Append(Reverse(Tail(s)), Head(s))

\* Label::Text(std::wstring)
LabelText(st, i, text) == [st EXCEPT !.cs[i].text = text]

\* operator() of a std::function held by control i.
Invoke(st, i, member, f) ==
  LET s1 == Enter(st, member, i, f.fn)
  IN  IF f.fn = "reverse"
        THEN LabelText(s1, f.output, Reverse(s1.cs[f.input].text))
        ELSE s1

ControlOnHover(st, i) ==
  [Enter(st, "OnHover", i, "") EXCEPT !.cs[i].onHover = TRUE]

ControlOnClick_AlsoHovers(st, i) ==
  [Enter(st, "OnClick", i, "") EXCEPT !.cs[i].onClick = TRUE,
                                      !.cs[i].onHover = TRUE]

ControlOnClick(st, i) ==
  [Enter(st, "OnClick", i, "") EXCEPT !.cs[i].onClick = TRUE]

\* A focus hook that grows the area by a focus border.
ControlOnFocus_GrowsArea(st, i) ==
  [Enter(st, "OnFocus", i, "") EXCEPT
     !.cs[i].onFocus = TRUE,
     !.cs[i].area = [left |-> @.left - 1, top |-> @.top - 1,
                     right |-> @.right + 1, bottom |-> @.bottom + 1]]

ControlOnFocus(st, i) ==
  [Enter(st, "OnFocus", i, "") EXCEPT !.cs[i].onFocus = TRUE]

ControlLeaveClick_KeepsPressed(st, i) ==
  LET s1 == Enter(st, "LeaveClick", i, "")
  IN  Invoke(s1, i, "_clickEvent", s1.cs[i].clickEvent)

ControlLeaveClick_NoCallback(st, i) ==
  [Enter(st, "LeaveClick", i, "") EXCEPT !.cs[i].onClick = FALSE]

ControlLeaveClick(st, i) ==
  LET s1 == [Enter(st, "LeaveClick", i, "") EXCEPT !.cs[i].onClick = FALSE]
  IN  Invoke(s1, i, "_clickEvent", s1.cs[i].clickEvent)

ControlLeaveHover(st, i) ==
  [Enter(st, "LeaveHover", i, "") EXCEPT !.cs[i].onHover = FALSE]

ControlLeaveFocus(st, i) ==
  [Enter(st, "LeaveFocus", i, "") EXCEPT !.cs[i].onFocus = FALSE]

\* static_cast<wchar_t>(ch): wchar_t is 16 bits wide on Windows.
WChar(ch) == ch % 65536

\* ------------------------------------------------------------ class TextBox
TextBoxOnChar_AppendsBackspace(st, i, ch) ==
  LET s1 == Enter(st, "OnChar", i, "")
      s2 == [s1 EXCEPT !.cs[i].text = Append(@, ch)]
  IN  Invoke(s2, i, "_changeEvent", s2.cs[i].changeEvent)

TextBoxOnChar(st, i, ch) ==
  LET s1 == Enter(st, "OnChar", i, "")
  IN  IF ch # Backspace
        THEN LET s2 == [s1 EXCEPT !.cs[i].text = Append(@, ch)]
             IN  Invoke(s2, i, "_changeEvent", s2.cs[i].changeEvent)
        ELSE s1

\* text.pop_back()
PopBack(s) == SubSeq(s, 1, Len(s) - 1)

TextBoxOnKeyDown_FiresOnEmpty(st, i, key) ==
  LET s1 == Enter(st, "OnKeyDown", i, "")
  IN  IF key = VK_BACK
        THEN LET s2 == [s1 EXCEPT !.cs[i].text = PopBack(@)]
             IN  Invoke(s2, i, "_changeEvent", s2.cs[i].changeEvent)
        ELSE s1

TextBoxOnKeyDown_Silent(st, i, key) ==
  LET s1 == Enter(st, "OnKeyDown", i, "")
  IN  IF key = VK_BACK /\ s1.cs[i].text # <<>>
        THEN [s1 EXCEPT !.cs[i].text = PopBack(@)]
        ELSE s1

TextBoxOnKeyDown(st, i, key) ==
  LET s1 == Enter(st, "OnKeyDown", i, "")
  IN  IF key = VK_BACK /\ s1.cs[i].text # <<>>
        THEN LET s2 == [s1 EXCEPT !.cs[i].text = PopBack(@)]
             IN  Invoke(s2, i, "_changeEvent", s2.cs[i].changeEvent)
        ELSE s1

\* ---------------------------------------------------------- virtual dispatch
\* control->OnChar(ch): TextBox overrides it, Label and Button inherit the
\* empty Control::OnChar.
OnChar(st, i, ch) ==
  IF st.cs[i].kind = "TextBox" THEN TextBoxOnChar(st, i, ch)
  ELSE Enter(st, "OnChar", i, "")

\* control->OnKeyDown(key)
OnKeyDown(st, i, key) ==
  IF st.cs[i].kind = "TextBox" THEN TextBoxOnKeyDown(st, i, key)
  ELSE Enter(st, "OnKeyDown", i, "")

\* control->Paint(): TextBox draws its border and its text, Label its text,
\* Button fills its area with the brush GetBrush() selects.
Paint(st, i) ==
  LET c  == st.cs[i]
      s1 == Enter(st, "Paint", i, "")
  IN  CASE c.kind = "TextBox" ->
             Enter(Enter(s1, "DrawRectangle", i, "textBoxBorderBrush"),
                   "Draw", i, "textWriteBrush")
        [] c.kind = "Label" -> Enter(s1, "Draw", i, "textWriteBrush")
        [] c.kind = "Button" ->
             Enter(s1, "FillRectangle", i,
                   IF c.onHover THEN "buttonHoverBrush" ELSE "buttonNormalBrush")
        [] OTHER -> s1

\* ---------------------------------------------------- class ControlContainer
\* _controls.emplace_back(control)
Add(cs, control) == Append(cs, control)

\* Each loop "for (auto control : _controls)" is unrolled from index i on.
RECURSIVE ContainerOnHoverFrom(_, _, _, _)
ContainerOnHoverFrom(st, i, x, y) ==
  IF i > Len(st.cs) THEN st
  ELSE LET control == st.cs[i]
           s1 == IF PointInRectangle(Area(control), [x |-> x, y |-> y])
                   THEN IF ~IsHover(control) THEN ControlOnHover(st, i) ELSE st
                   ELSE IF IsHover(control) THEN ControlLeaveHover(st, i) ELSE st
       IN  ContainerOnHoverFrom(s1, i + 1, x, y)

\* A loop that stops at the first control under the pointer.
RECURSIVE ContainerOnHoverFirstHit(_, _, _, _)
ContainerOnHoverFirstHit(st, i, x, y) ==
  IF i > Len(st.cs) THEN st
  ELSE LET control == st.cs[i]
       IN  IF PointInRectangle(Area(control), [x |-> x, y |-> y])
             THEN IF ~IsHover(control) THEN ControlOnHover(st, i) ELSE st
             ELSE ContainerOnHoverFirstHit(
                    IF IsHover(control) THEN ControlLeaveHover(st, i) ELSE st,
                    i + 1, x, y)

ContainerOnHover_EarlyExit(st, x, y) == ContainerOnHoverFirstHit(st, 1, x, y)

\* A loop that calls OnHover on every control under the pointer, hovered or
\* not.
RECURSIVE ContainerOnHoverAlways(_, _, _, _)
ContainerOnHoverAlways(st, i, x, y) ==
  IF i > Len(st.cs) THEN st
  ELSE LET control == st.cs[i]
           s1 == IF PointInRectangle(Area(control), [x |-> x, y |-> y])
                   THEN ControlOnHover(st, i)
                   ELSE IF IsHover(control) THEN ControlLeaveHover(st, i) ELSE st
       IN  ContainerOnHoverAlways(s1, i + 1, x, y)

ContainerOnHover_AlwaysEnter(st, x, y) == ContainerOnHoverAlways(st, 1, x, y)

ContainerOnHover(st, x, y) == ContainerOnHoverFrom(st, 1, x, y)

RECURSIVE ContainerOnClickFrom(_, _, _, _)
ContainerOnClickFrom(st, i, x, y) ==
  IF i > Len(st.cs) THEN st
  ELSE LET control == st.cs[i]
           s1 == IF PointInRectangle(Area(control), [x |-> x, y |-> y])
                   THEN ControlOnFocus(ControlOnClick(st, i), i)
                   ELSE IF IsFocused(control) THEN ControlLeaveFocus(st, i) ELSE st
       IN  ContainerOnClickFrom(s1, i + 1, x, y)

\* A loop that presses the controls under the pointer without focusing them.
RECURSIVE ContainerOnClickNoFocus(_, _, _, _)
ContainerOnClickNoFocus(st, i, x, y) ==
  IF i > Len(st.cs) THEN st
  ELSE LET control == st.cs[i]
           s1 == IF PointInRectangle(Area(control), [x |-> x, y |-> y])
                   THEN ControlOnClick(st, i)
                   ELSE IF IsFocused(control) THEN ControlLeaveFocus(st, i) ELSE st
       IN  ContainerOnClickNoFocus(s1, i + 1, x, y)

ContainerOnClick_NoFocus(st, x, y) == ContainerOnClickNoFocus(st, 1, x, y)

\* A loop that never takes the focus away.
RECURSIVE ContainerOnClickKeepsFocus(_, _, _, _)
ContainerOnClickKeepsFocus(st, i, x, y) ==
  IF i > Len(st.cs) THEN st
  ELSE LET control == st.cs[i]
           s1 == IF PointInRectangle(Area(control), [x |-> x, y |-> y])
                   THEN ControlOnFocus(ControlOnClick(st, i), i)
                   ELSE st
       IN  ContainerOnClickKeepsFocus(s1, i + 1, x, y)

ContainerOnClick_KeepsFocus(st, x, y) == ContainerOnClickKeepsFocus(st, 1, x, y)

ContainerOnClick(st, x, y) == ContainerOnClickFrom(st, 1, x, y)

RECURSIVE ContainerOnCharFrom(_, _, _)
ContainerOnCharFrom(st, i, ch) ==
  IF i > Len(st.cs) THEN st
  ELSE IF IsFocused(st.cs[i]) THEN OnChar(st, i, WChar(ch))
  ELSE ContainerOnCharFrom(st, i + 1, ch)

\* The loop without its break.
RECURSIVE ContainerOnCharNoBreak(_, _, _)
ContainerOnCharNoBreak(st, i, ch) ==
  IF i > Len(st.cs) THEN st
  ELSE ContainerOnCharNoBreak(
         IF IsFocused(st.cs[i]) THEN OnChar(st, i, WChar(ch)) ELSE st,
         i + 1, ch)

ContainerOnChar_NoBreak(st, ch) == ContainerOnCharNoBreak(st, 1, ch)

\* A dispatch to the first control, focused or not.
ContainerOnChar_IgnoresFocus(st, ch) ==
  IF Len(st.cs) = 0 THEN st ELSE OnChar(st, 1, WChar(ch))

ContainerOnChar(st, ch) == ContainerOnCharFrom(st, 1, ch)

RECURSIVE ContainerOnKeyDownFrom(_, _, _)
ContainerOnKeyDownFrom(st, i, key) ==
  IF i > Len(st.cs) THEN st
  ELSE IF IsFocused(st.cs[i]) THEN OnKeyDown(st, i, key)
  ELSE ContainerOnKeyDownFrom(st, i + 1, key)

ContainerOnKeyDown(st, key) == ContainerOnKeyDownFrom(st, 1, key)

RECURSIVE ContainerLeaveClickFrom(_, _)
ContainerLeaveClickFrom(st, i) ==
  IF i > Len(st.cs) THEN st
  ELSE ContainerLeaveClickFrom(
         IF IsClicked(st.cs[i]) THEN ControlLeaveClick(st, i) ELSE st, i + 1)

\* A loop that completes a click on every control, pressed or not.
RECURSIVE ContainerLeaveClickAll(_, _)
ContainerLeaveClickAll(st, i) ==
  IF i > Len(st.cs) THEN st
  ELSE ContainerLeaveClickAll(ControlLeaveClick(st, i), i + 1)

ContainerLeaveClick_Unconditional(st) == ContainerLeaveClickAll(st, 1)

\* A loop that completes the click only on controls still under the pointer.
RECURSIVE ContainerLeaveClickHovered(_, _)
ContainerLeaveClickHovered(st, i) ==
  IF i > Len(st.cs) THEN st
  ELSE ContainerLeaveClickHovered(
         IF IsClicked(st.cs[i]) /\ IsHover(st.cs[i])
           THEN ControlLeaveClick(st, i) ELSE st, i + 1)

ContainerLeaveClick_OnlyHovered(st) == ContainerLeaveClickHovered(st, 1)

ContainerLeaveClick(st) == ContainerLeaveClickFrom(st, 1)

RECURSIVE ContainerPaintFrom(_, _)
ContainerPaintFrom(st, i) ==
  IF i > Len(st.cs) THEN st
  ELSE ContainerPaintFrom(Paint(st, i), i + 1)

\* A loop that paints from the last control to the first.
RECURSIVE ContainerPaintDown(_, _)
ContainerPaintDown(st, i) ==
  IF i < 1 THEN st
  ELSE ContainerPaintDown(Paint(st, i), i - 1)

ContainerPaint_Backwards(st) == ContainerPaintDown(st, Len(st.cs))

ContainerPaint(st) == ContainerPaintFrom(st, 1)

\* ------------------------------------------------------------- construction
\* Control::Control(area) registers the new object with the container.
NewControlIn(cs, kind, area) == Add(cs, Control(kind, area))

\* A registration that keeps a callback registered earlier.
WhenClick_KeepsFirst(cs, i, f) ==
  IF cs[i].clickEvent = NoOp THEN [cs EXCEPT ![i].clickEvent = f] ELSE cs

\* Control::WhenClick(f) on control i
WhenClick(cs, i, f) == [cs EXCEPT ![i].clickEvent = f]

\* Control::WhenChange(f) on control i
WhenChange(cs, i, f) == [cs EXCEPT ![i].changeEvent = f]

\* UserInterface(): the TextBox input, the Label output, and input's change
\* callback, which reverses input's text into output.
UserInterface ==
  LET c1 == NewControlIn(<<>>, "TextBox", RectF(20, 20, 150, 50))
      c2 == NewControlIn(c1, "Label", RectF(20, 60, 150, 85))
  IN  WhenChange(c2, 1, ReverseLambda(1, 2))

\* ------------------------------------------------------------------ WndProc
Message(msg, x, y, wParam) == [msg |-> msg, x |-> x, y |-> y, wParam |-> wParam]

Begin == [cs |-> controls, tr |-> <<>>]

\* The handler ran to completion with final state st.
Handled(st, message) ==
  /\ controls' = st.cs
  /\ trace' = st.tr
  /\ last' = message
  /\ UNCHANGED <<calls, hit>>

\* case WM_MOUSEMOVE
MouseMove(x, y) ==
  Handled(ContainerOnHover(Begin, x, y), Message("WM_MOUSEMOVE", x, y, 0))

\* case WM_LBUTTONDOWN
LButtonDown(x, y) ==
  Handled(ContainerOnClick(Begin, x, y), Message("WM_LBUTTONDOWN", x, y, 0))

\* case WM_LBUTTONUP
LButtonUp ==
  Handled(ContainerLeaveClick(Begin), Message("WM_LBUTTONUP", 0, 0, 0))

\* No text has reached the length the model stops at.
CanType(cap) == \A i \in 1..Len(controls) : Len(controls[i].text) < cap

\* case WM_CHAR
Char(ch, cap) ==
  /\ CanType(cap)
  /\ Handled(ContainerOnChar(Begin, ch), Message("WM_CHAR", 0, 0, ch))

\* case WM_KEYDOWN
KeyDown(key) ==
  Handled(ContainerOnKeyDown(Begin, key), Message("WM_KEYDOWN", 0, 0, key))

\* case WM_PAINT (DrawRectangle calls ControlContainer::Paint)
PaintWindow ==
  Handled(ContainerPaint(Begin), Message("WM_PAINT", 0, 0, 0))

\* new TextBox{area}, new Label{area}, new Button{area}
NewControl(kind, area) ==
  /\ Len(controls) < MaxControls
  /\ controls' = NewControlIn(controls, kind, area)
  /\ trace' = <<>>
  /\ last' = Message("new", 0, 0, 0)
  /\ UNCHANGED <<calls, hit>>

\* ------------------------------------------- the container under any controls
\* The controls an application may construct: a text box and a button
\* whose areas overlap, and a label next to the text box.  (2, 1) lies on the
\* shared edge of the first and the last area and inside the second.
Widgets ==
  { [kind |-> "TextBox", area |-> RectF(0, 0, 2, 2)],
    [kind |-> "Button",  area |-> RectF(0, 0, 3, 3)],
    [kind |-> "Label",   area |-> RectF(2, 0, 4, 2)] }

\* Pointer positions: inside the first two areas, on the shared edge, inside
\* the second area only, inside the third only, and outside all of them.
Pointer ==
  { [x |-> 1, y |-> 1], [x |-> 2, y |-> 1], [x |-> 2, y |-> 2],
    [x |-> 3, y |-> 1], [x |-> 0, y |-> 3] }

NoMessage == Message("none", 0, 0, 0)
NoHit == [rectangle |-> RectF(0, 0, 0, 0), point |-> [x |-> 0, y |-> 0],
          called |-> FALSE, result |-> FALSE]

Init ==
  /\ controls = <<>>
  /\ last = NoMessage
  /\ trace = <<>>
  /\ calls = <<>>
  /\ hit = NoHit

Next ==
  \/ \E w \in Widgets : NewControl(w.kind, w.area)
  \/ \E p \in Pointer : MouseMove(p.x, p.y)
  \/ \E p \in Pointer : LButtonDown(p.x, p.y)
  \/ LButtonUp
  \/ \E ch \in Chars : Char(ch, MaxText)
  \/ \E key \in Keys : KeyDown(key)
  \/ PaintWindow

Spec == Init /\ [][Next]_vars

\* ------------------------------------------------ the UserInterface application
\* Pointer positions inside the TextBox, inside the Label, between the two,
\* on an edge of each, and outside both.
UIPoints ==
  { [x |-> 85, y |-> 35], [x |-> 85, y |-> 72], [x |-> 85, y |-> 55],
    [x |-> 20, y |-> 35], [x |-> 85, y |-> 50], [x |-> 85, y |-> 60],
    [x |-> 150, y |-> 72], [x |-> 300, y |-> 300] }

InitUI ==
  /\ controls = UserInterface
  /\ last = NoMessage
  /\ trace = <<>>
  /\ calls = <<>>
  /\ hit = NoHit

NextUI ==
  \/ \E p \in UIPoints : MouseMove(p.x, p.y)
  \/ \E p \in UIPoints : LButtonDown(p.x, p.y)
  \/ LButtonUp
  \/ \E ch \in UIChars : Char(ch, MaxUIText)
  \/ \E key \in Keys : KeyDown(key)
  \/ PaintWindow

SpecUI == InitUI /\ [][NextUI]_vars

\* --------------------------------------- member functions called on a TextBox
\* The number of entries of tr that call `name`.
RECURSIVE Count(_, _)
Count(tr, name) ==
  IF tr = <<>> THEN 0
  ELSE (IF Head(tr).call = name THEN 1 ELSE 0) + Count(Tail(tr), name)

Called(st, fn, arg) ==
  /\ Len(calls) < MaxCalls
  /\ controls' = st.cs
  /\ trace' = st.tr
  /\ calls' = Append(calls, [fn |-> fn, arg |-> arg,
                             fired |-> Count(st.tr, "_changeEvent")])
  /\ UNCHANGED <<last, hit>>

\* input->OnChar(ch)
CallOnChar(ch) == Called(OnChar(Begin, 1, ch), "OnChar", ch)

\* input->OnKeyDown(key)
CallOnKeyDown(key) == Called(OnKeyDown(Begin, 1, key), "OnKeyDown", key)

InitTextBox ==
  /\ controls \in { NewControlIn(<<>>, "TextBox", RectF(0, 0, 2, 2)), UserInterface }
  /\ last = NoMessage
  /\ trace = <<>>
  /\ calls = <<>>
  /\ hit = NoHit

NextTextBox ==
  \/ \E ch \in UIChars : CallOnChar(ch)
  \/ \E key \in Keys : CallOnKeyDown(key)

SpecTextBox == InitTextBox /\ [][NextTextBox]_vars

\* ------------------------------------------------- PointInRectangle on its own
Rects == { RectF(l, t, r, b) : l \in Coords, t \in Coords, r \in Coords, b \in Coords }

HitTest ==
  /\ ~hit.called
  /\ hit' = [hit EXCEPT !.called = TRUE,
                        !.result = PointInRectangle(hit.rectangle, hit.point)]
  /\ UNCHANGED <<controls, last, trace, calls>>

InitHit ==
  /\ controls = <<>>
  /\ last = NoMessage
  /\ trace = <<>>
  /\ calls = <<>>
  /\ hit \in [rectangle : Rects, point : Points, called : {FALSE}, result : {FALSE}]

NextHit == HitTest

SpecHit == InitHit /\ [][NextHit]_vars

\* -------------------------------------------------- callback registration
\* Two callbacks of an application, told apart by name; neither touches a
\* control.
Callbacks ==
  { [fn |-> "f", input |-> 0, output |-> 0],
    [fn |-> "g", input |-> 0, output |-> 0] }

\* A registration on control 1 returned with controls cs; calls keeps the
\* registrations made so far.
Registered(cs, fn, f) ==
  /\ Len(calls) < MaxRegistrations
  /\ controls' = cs
  /\ calls' = Append(calls, [fn |-> fn, arg |-> f, fired |-> 0])
  /\ trace' = <<>>
  /\ last' = Message(fn, 0, 0, 0)
  /\ UNCHANGED hit

\* input->WhenClick(f)
CallWhenClick(f) == Registered(WhenClick(controls, 1, f), "WhenClick", f)

\* input->WhenChange(f)
CallWhenChange(f) == Registered(WhenChange(controls, 1, f), "WhenChange", f)

InitCallbacks ==
  /\ controls = NewControlIn(<<>>, "TextBox", RectF(0, 0, 2, 2))
  /\ last = NoMessage
  /\ trace = <<>>
  /\ calls = <<>>
  /\ hit = NoHit

NextCallbacks ==
  \/ \E f \in Callbacks : CallWhenClick(f)
  \/ \E f \in Callbacks : CallWhenChange(f)
  \/ \E p \in Pointer : MouseMove(p.x, p.y)
  \/ \E p \in Pointer : LButtonDown(p.x, p.y)
  \/ LButtonUp
  \/ \E ch \in Chars : Char(ch, MaxText)
  \/ \E key \in Keys : KeyDown(key)
  \/ PaintWindow

SpecCallbacks == InitCallbacks /\ [][NextCallbacks]_vars

\* =================================================================== claims
\* The statement of strict containment the claims use: left < x < right and
\* top < y < bottom.
StrictlyInside(area, x, y) ==
  /\ area.left < x /\ x < area.right
  /\ area.top < y /\ y < area.bottom

Indices == 1..Len(controls)
FocusedSet == { i \in Indices : controls[i].onFocus }
PressedSet == { i \in Indices : controls[i].onClick }

\* The number of entries of tr that call `name` on control i.
RECURSIVE CountFor(_, _, _)
CountFor(tr, name, i) ==
  IF tr = <<>> THEN 0
  ELSE (IF Head(tr).call = name /\ Head(tr).target = i THEN 1 ELSE 0)
       + CountFor(Tail(tr), name, i)

\* The targets of the entries of tr that call `name`, in call order.
RECURSIVE Targets(_, _)
Targets(tr, name) ==
  IF tr = <<>> THEN <<>>
  ELSE (IF Head(tr).call = name THEN <<Head(tr).target>> ELSE <<>>)
       \o Targets(Tail(tr), name)

\* C1: in every reachable state at most one control has its focused flag
\* true, whatever controls are registered (overlapping ones included).
C1_AtMostOneFocused == Cardinality(FocusedSet) <= 1

\* C2: a control's pressed flag goes from false to true only in a
\* pointer-down whose point is strictly inside its bounds, and from true to
\* false only in a pointer-up; and every pointer-up fires the click callback
\* of every control that was pressed immediately before it.
C2_PressedSetAndCleared ==
  [][ \A i \in Indices :
        /\ (~controls[i].onClick /\ controls'[i].onClick)
             => /\ last'.msg = "WM_LBUTTONDOWN"
                /\ StrictlyInside(controls[i].area, last'.x, last'.y)
        /\ (controls[i].onClick /\ ~controls'[i].onClick)
             => last'.msg = "WM_LBUTTONUP"
        /\ (last'.msg = "WM_LBUTTONUP" /\ controls[i].onClick)
             => CountFor(trace', "_clickEvent", i) >= 1 ]_vars

\* A pointer-up has just released two pressed controls and fired both click
\* callbacks.
C2_Witness ==
  /\ last.msg = "WM_LBUTTONUP"
  /\ Count(trace, "_clickEvent") = 2
  /\ PressedSet = {}

\* C3: immediately after a pointer-move (x, y), every control's hover flag
\* equals whether (x, y) lies strictly inside that control's bounds, each
\* control on its own (overlapping controls are hovered together).
C3_HoverIsContainment ==
  last.msg = "WM_MOUSEMOVE" =>
    \A i \in Indices :
      controls[i].onHover <=> StrictlyInside(controls[i].area, last.x, last.y)

\* After a pointer-move two overlapping controls are hovered at once.
C3_Witness ==
  /\ last.msg = "WM_MOUSEMOVE"
  /\ Cardinality({ i \in Indices : controls[i].onHover }) = 2

\* C4: the hit test is true for bounds (left, top, right, bottom) and point
\* (x, y) exactly when left < x < right and top < y < bottom; a point on any
\* of the four edges is not inside.
C4_HitTestStrict ==
  hit.called =>
    /\ hit.result <=> StrictlyInside(hit.rectangle, hit.point.x, hit.point.y)
    /\ ( \/ hit.point.x \in {hit.rectangle.left, hit.rectangle.right}
         \/ hit.point.y \in {hit.rectangle.top, hit.rectangle.bottom} )
         => ~hit.result

\* The hit test has rejected a point on the left edge of a rectangle that
\* the point would otherwise be inside.
C4_Witness ==
  /\ hit.called
  /\ ~hit.result
  /\ hit.point.x = hit.rectangle.left
  /\ hit.rectangle.left < hit.rectangle.right
  /\ hit.rectangle.top < hit.point.y
  /\ hit.point.y < hit.rectangle.bottom

\* C5: a pointer-down at a point inside control C's bounds followed by a
\* pointer-up fires C's click callback exactly once and leaves C's pressed
\* flag false; more generally every pointer-up fires exactly one click
\* callback for each control that was pressed and clears its pressed flag.
C5_ClickFiresOnce ==
  [][ last'.msg = "WM_LBUTTONUP" =>
        \A i \in Indices :
          /\ (last.msg = "WM_LBUTTONDOWN"
                /\ StrictlyInside(controls[i].area, last.x, last.y))
               => /\ CountFor(trace', "_clickEvent", i) = 1
                  /\ ~controls'[i].onClick
          /\ controls[i].onClick
               => /\ CountFor(trace', "_clickEvent", i) = 1
                  /\ ~controls'[i].onClick ]_vars

\* A pointer-up has fired the click callback of a control once, and of the
\* other control not at all, and the clicked control is no longer pressed.
C5_Witness ==
  /\ last.msg = "WM_LBUTTONUP"
  /\ \E i \in Indices :
       /\ CountFor(trace, "_clickEvent", i) = 1
       /\ ~controls[i].onClick
       /\ controls[i].onFocus
  /\ Count(trace, "_clickEvent") = 1
  /\ Len(controls) = 2

\* The last message was a pointer-down at a point outside every control.
DownOutsideAll ==
  /\ last.msg = "WM_LBUTTONDOWN"
  /\ \A i \in Indices : ~StrictlyInside(controls[i].area, last.x, last.y)

\* C6 as stated: whenever a pointer-down lands outside the bounds of every
\* registered control and is followed by a pointer-up, that pointer-up fires
\* no click callback for any control.
C6_NoClickAfterDownOutside ==
  [][ (DownOutsideAll /\ last'.msg = "WM_LBUTTONUP")
        => Count(trace', "_clickEvent") = 0 ]_vars

\* C6 as amended: whenever a pointer-down lands outside the bounds of every
\* registered control while no control is still pressed from an earlier
\* pointer-down, and is followed by a pointer-up, that pointer-up fires no
\* click callback for any control.
C6_NoClickAfterDownOutsideUnpressed ==
  [][ (DownOutsideAll /\ PressedSet = {} /\ last'.msg = "WM_LBUTTONUP")
        => Count(trace', "_clickEvent") = 0 ]_vars

\* A pointer-down has landed outside two registered controls, neither of
\* which is pressed, one of which is still hovered.
C6_Witness ==
  /\ DownOutsideAll
  /\ Len(controls) = 2
  /\ PressedSet = {}
  /\ \E i \in Indices : controls[i].onHover

\* The first control in insertion order whose focused flag is true, 0 when
\* there is none.
FirstFocused ==
  IF FocusedSet = {} THEN 0
  ELSE CHOOSE i \in FocusedSet : \A j \in FocusedSet : i <= j

\* C7: a character or key-down event is delivered to exactly one control,
\* the first control in insertion order whose focused flag is true, and to
\* no other control even when later controls are focused too; when no
\* control is focused the event changes no state and fires no callback.
C7_KeyboardToFirstFocused ==
  [][ last'.msg \in {"WM_CHAR", "WM_KEYDOWN"} =>
        LET hook  == IF last'.msg = "WM_CHAR" THEN "OnChar" ELSE "OnKeyDown"
            other == IF last'.msg = "WM_CHAR" THEN "OnKeyDown" ELSE "OnChar"
        IN  IF FirstFocused = 0
              THEN /\ controls' = controls
                   /\ trace' = <<>>
              ELSE /\ Targets(trace', hook) = <<FirstFocused>>
                   /\ Targets(trace', other) = <<>>
                   /\ \A j \in Indices \ {FirstFocused} :
                        controls'[j] = controls[j] ]_vars

\* A character has been delivered once while two controls were focused, and
\* it went to the first of them.
C7_Witness ==
  /\ last.msg = "WM_CHAR"
  /\ Cardinality(FocusedSet) = 2
  /\ Targets(trace, "OnChar") = <<1>>

\* The reference result of a sequence of direct calls on an empty TextBox:
\* a non-backspace character is appended at the end, a backspace key-down
\* removes the last character of a non-empty text, anything else does
\* nothing.
RECURSIVE RefText(_)
RefText(cs) ==
  IF cs = <<>> THEN <<>>
  ELSE LET before == RefText(SubSeq(cs, 1, Len(cs) - 1))
           c      == cs[Len(cs)]
       IN  IF c.fn = "OnChar" /\ c.arg # 8 THEN before \o <<c.arg>>
           ELSE IF c.fn = "OnKeyDown" /\ c.arg = 8 /\ Len(before) > 0
             THEN [k \in 1..(Len(before) - 1) |-> before[k]]
           ELSE before

\* The number of change callbacks the k-th call is to fire: one for an append,
\* one for a removal, none otherwise.
RefFired(cs, k) ==
  LET before == RefText(SubSeq(cs, 1, k - 1))
      after  == RefText(SubSeq(cs, 1, k))
  IN  IF Len(after) # Len(before) THEN 1 ELSE 0

\* C8: for every sequence of onChar and onKeyDown calls on a TextBox that
\* starts empty, the text equals the reference result, the change callback
\* fires exactly once per append and once per removal, and it does not fire
\* for a backspace key-down on empty text, which leaves the text empty.
C8_TextBoxMatchesReference ==
  /\ controls[1].text = RefText(calls)
  /\ \A k \in 1..Len(calls) : calls[k].fired = RefFired(calls, k)
  /\ \A k \in 1..Len(calls) :
       (calls[k].fn = "OnKeyDown" /\ calls[k].arg = 8
          /\ RefText(SubSeq(calls, 1, k - 1)) = <<>>)
         => calls[k].fired = 0 /\ RefText(SubSeq(calls, 1, k)) = <<>>

\* Two characters were typed, two backspace key-downs removed them with one
\* callback each, and a further backspace on the empty text fired nothing.
C8_Witness ==
  /\ Len(calls) >= 4
  /\ calls[Len(calls)].fn = "OnKeyDown" /\ calls[Len(calls)].arg = 8
  /\ calls[Len(calls)].fired = 0
  /\ calls[Len(calls) - 1].fn = "OnKeyDown" /\ calls[Len(calls) - 1].fired = 1
  /\ calls[1].fn = "OnChar" /\ calls[1].fired = 1
  /\ controls[1].text = <<>>

\* The character-wise reverse of a text.
Reversed(s) == [k \in 1..Len(s) |-> s[Len(s) + 1 - k]]

\* The Label shows the reverse of the TextBox's text.
LabelIsReverse == controls[2].text = Reversed(controls[1].text)

\* The TextBox is focused and holds "cat", and the next message is a
\* backspace key-down.
BackspaceAfterCat ==
  /\ controls[1].onFocus
  /\ controls[1].text = <<99, 97, 116>>
  /\ last'.msg = "WM_KEYDOWN" /\ last'.wParam = 8

\* C9 as stated: in the UserInterface application the Label's text is the
\* reverse of the TextBox's text after every sequence of host events; typing
\* c, a, t gives Label "tac" and one backspace then gives Label "at".
C9_LabelReverseWithAt ==
  /\ LabelIsReverse
  /\ [][ /\ LabelIsReverse'
         /\ controls'[1].text = <<99, 97, 116>> => controls'[2].text = <<116, 97, 99>>
         /\ BackspaceAfterCat => controls'[2].text = <<97, 116>> ]_vars

\* C9 as amended: the Label's text is the reverse of the TextBox's text after
\* every sequence of host events; typing c, a, t gives Label "tac" and one
\* backspace then leaves TextBox "ca" and gives Label "ac".
C9_LabelReverseWithAc ==
  /\ LabelIsReverse
  /\ [][ /\ LabelIsReverse'
         /\ controls'[1].text = <<99, 97, 116>> => controls'[2].text = <<116, 97, 99>>
         /\ BackspaceAfterCat => /\ controls'[1].text = <<99, 97>>
                                 /\ controls'[2].text = <<97, 99>> ]_vars

\* After c, a, t and a backspace key-down the TextBox holds "ca" and the
\* Label "ac".
C9_Witness ==
  /\ last.msg = "WM_KEYDOWN" /\ last.wParam = 8
  /\ Count(trace, "_changeEvent") = 1
  /\ controls[1].text = <<99, 97>>
  /\ controls[2].text = <<97, 99>>

\* C10: every container Paint call invokes paint exactly once on each
\* registered control, in registration order, whatever the hover, pressed
\* and focused flags of the controls are.
C10_PaintInInsertionOrder ==
  last.msg = "WM_PAINT" =>
    Targets(trace, "Paint") = [k \in 1..Len(controls) |-> k]

\* Two controls were painted while the second one was hovered, pressed and
\* focused and the first one was not.
C10_Witness ==
  /\ last.msg = "WM_PAINT"
  /\ Len(controls) = 2
  /\ Count(trace, "Paint") = 2
  /\ controls[2].onHover /\ controls[2].onClick /\ controls[2].onFocus
  /\ ~controls[1].onHover /\ ~controls[1].onFocus

\* C11: in a pointer-move the container calls a control's pointer-enter hook
\* only when its hover flag is false and its pointer-leave hook only when
\* its hover flag is true, each at most once and exactly when the flag
\* changes; a second consecutive move inside the same control calls neither
\* hook and leaves hover true, and a following move outside clears it.
C11_HoverHooksOncePerChange ==
  [][ last'.msg = "WM_MOUSEMOVE" =>
        \A i \in Indices :
          LET enters == CountFor(trace', "OnHover", i)
              leaves == CountFor(trace', "LeaveHover", i)
              inside == StrictlyInside(controls[i].area, last'.x, last'.y)
          IN  /\ enters <= 1 /\ leaves <= 1
              /\ enters = 1 => ~controls[i].onHover
              /\ leaves = 1 => controls[i].onHover
              /\ enters = 1 <=> (~controls[i].onHover /\ controls'[i].onHover)
              /\ leaves = 1 <=> (controls[i].onHover /\ ~controls'[i].onHover)
              /\ (last.msg = "WM_MOUSEMOVE"
                    /\ StrictlyInside(controls[i].area, last.x, last.y))
                   => /\ controls[i].onHover
                      /\ inside => (enters = 0 /\ controls'[i].onHover)
                      /\ ~inside => (leaves = 1 /\ ~controls'[i].onHover) ]_vars

\* A pointer-move inside a control that was hovered already: hover is still
\* true and no hook was called.
C11_Witness ==
  /\ last.msg = "WM_MOUSEMOVE"
  /\ trace = <<>>
  /\ \E i \in Indices :
       /\ controls[i].onHover
       /\ StrictlyInside(controls[i].area, last.x, last.y)

\* C13: no event dispatched through the container changes the bounds of any
\* control: each control keeps the bounds it was constructed with.
C13_BoundsNeverChange ==
  [][ /\ \A i \in Indices : controls'[i].area = controls[i].area
      /\ last'.msg = "new" =>
           \E w \in Widgets : controls'[Len(controls')] = Control(w.kind, w.area)
    ]_vars

\* A control that has been hovered, pressed and focused before the last
\* pointer-up still has the bounds of one of the constructed widgets.
C13_Witness ==
  /\ last.msg = "WM_LBUTTONUP"
  /\ \E i \in Indices :
       /\ controls[i].onHover /\ controls[i].onFocus
       /\ CountFor(trace, "_clickEvent", i) = 1
       /\ controls[i].area \in { w.area : w \in Widgets }

\* C14: immediately after a pointer-down (x, y), every control whose bounds
\* strictly contain (x, y) is pressed and focused, and every control whose
\* bounds do not contain (x, y) is not focused.
C14_DownPressesAndFocuses ==
  last.msg = "WM_LBUTTONDOWN" =>
    \A i \in Indices :
      IF StrictlyInside(controls[i].area, last.x, last.y)
        THEN controls[i].onClick /\ controls[i].onFocus
        ELSE ~controls[i].onFocus

\* After a pointer-down one control is pressed and focused, and another one,
\* still pressed from an earlier pointer-down that focused it, has lost the
\* focus.
C14_Witness ==
  /\ last.msg = "WM_LBUTTONDOWN"
  /\ \E i, j \in Indices :
       /\ StrictlyInside(controls[i].area, last.x, last.y)
       /\ controls[i].onClick /\ controls[i].onFocus
       /\ ~StrictlyInside(controls[j].area, last.x, last.y)
       /\ controls[j].onClick /\ ~controls[j].onFocus

\* C15: a pointer-up completes a click wherever the pointer is: when a
\* pressed control is no longer hovered because the pointer has moved outside
\* its bounds, the pointer-up still clears its pressed flag and fires its
\* click callback.
C15_UpCompletesClickAnywhere ==
  [][ last'.msg = "WM_LBUTTONUP" =>
        \A i \in Indices :
          (controls[i].onClick /\ ~controls[i].onHover)
            => /\ ~controls'[i].onClick
               /\ CountFor(trace', "_clickEvent", i) = 1 ]_vars

\* A pointer-up has fired the click callback of a control that is not
\* hovered, while the pointer is over another control.
C15_Witness ==
  /\ last.msg = "WM_LBUTTONUP"
  /\ \E i \in Indices :
       /\ CountFor(trace, "_clickEvent", i) = 1
       /\ ~controls[i].onHover
       /\ ~controls[i].onClick
  /\ \E j \in Indices : controls[j].onHover

\* The callback registered last by a call of `fn`, the default one when there
\* was no such call.
LastRegistered(fn) ==
  LET ks == { k \in 1..Len(calls) : calls[k].fn = fn }
  IN  IF ks = {} THEN NoOp
      ELSE calls[CHOOSE k \in ks : \A j \in ks : j <= k].arg

\* The names of the callbacks the entries of tr that call `name` invoked.
RECURSIVE Args(_, _)
Args(tr, name) ==
  IF tr = <<>> THEN <<>>
  ELSE (IF Head(tr).call = name THEN <<Head(tr).arg>> ELSE <<>>)
       \o Args(Tail(tr), name)

\* C12: registering a click (or change) callback replaces the one registered
\* before: a completed click invokes the click callback registered last,
\* once, and no other; an edit of the text invokes the change callback
\* registered last, once, and no other.
C12_RegistrationReplaces ==
  [][ /\ (last'.msg = "WM_LBUTTONUP" /\ controls[1].onClick)
           => Args(trace', "_clickEvent") = <<LastRegistered("WhenClick").fn>>
      /\ (last'.msg = "WM_CHAR" /\ controls[1].onFocus /\ last'.wParam # 8)
           => Args(trace', "_changeEvent") = <<LastRegistered("WhenChange").fn>>
      /\ (last'.msg = "WM_KEYDOWN" /\ controls[1].onFocus /\ last'.wParam = 8
            /\ controls[1].text # <<>>)
           => Args(trace', "_changeEvent") = <<LastRegistered("WhenChange").fn>>
      /\ last'.msg \in {"WM_LBUTTONUP", "WM_CHAR", "WM_KEYDOWN"}
           => /\ Len(Args(trace', "_clickEvent")) <= 1
              /\ Len(Args(trace', "_changeEvent")) <= 1 ]_vars

\* After WhenClick(f) and then WhenClick(g), a click has invoked g once and
\* f not at all.
C12_Witness ==
  /\ \E k \in 1..Len(calls) :
       /\ k < Len(calls)
       /\ calls[k].fn = "WhenClick" /\ calls[k].arg.fn = "f"
       /\ calls[k + 1].fn = "WhenClick" /\ calls[k + 1].arg.fn = "g"
       /\ \A j \in (k + 2)..Len(calls) : calls[j].fn # "WhenClick"
  /\ last.msg = "WM_LBUTTONUP"
  /\ Args(trace, "_clickEvent") = <<"g">>

\* The call made by this step, and the one made before it.
NewCall == calls'[Len(calls')]
PrevCall == calls[Len(calls)]

\* C16: a character event carrying the backspace character code leaves a
\* TextBox's text unchanged and fires no change callback, whatever the text;
\* removal happens only through key-down, so key-down(backspace) followed by
\* char(backspace) on a non-empty text removes exactly one character and
\* fires the change callback exactly once.
C16_BackspaceCharIgnored ==
  [][ Len(calls') = Len(calls) + 1 =>
        /\ (NewCall.fn = "OnChar" /\ NewCall.arg = 8)
             => /\ controls' = controls
                /\ NewCall.fired = 0
        /\ Len(controls'[1].text) < Len(controls[1].text)
             => NewCall.fn = "OnKeyDown"
        /\ (NewCall.fn = "OnKeyDown" /\ NewCall.arg = 8 /\ controls[1].text # <<>>)
             => /\ Len(controls'[1].text) = Len(controls[1].text) - 1
                /\ \A k \in 1..Len(controls'[1].text) :
                     controls'[1].text[k] = controls[1].text[k]
                /\ NewCall.fired = 1
        /\ (Len(calls) > 0 /\ PrevCall.fn = "OnKeyDown" /\ PrevCall.arg = 8
              /\ NewCall.fn = "OnChar" /\ NewCall.arg = 8)
             => LET before == RefText(SubSeq(calls, 1, Len(calls) - 1))
                IN  IF before # <<>>
                      THEN /\ controls'[1].text
                                = [k \in 1..(Len(before) - 1) |-> before[k]]
                           /\ PrevCall.fired + NewCall.fired = 1
                      ELSE /\ controls'[1].text = <<>>
                           /\ PrevCall.fired + NewCall.fired = 0 ]_vars

\* Two characters were typed, and key-down(backspace) followed by
\* char(backspace) removed one of them with one change callback.
C16_Witness ==
  /\ Len(calls) = 4
  /\ calls[1].fn = "OnChar" /\ calls[1].fired = 1
  /\ calls[2].fn = "OnChar" /\ calls[2].fired = 1
  /\ calls[3].fn = "OnKeyDown" /\ calls[3].arg = 8 /\ calls[3].fired = 1
  /\ calls[4].fn = "OnChar" /\ calls[4].arg = 8 /\ calls[4].fired = 0
  /\ controls[1].text = <<calls[1].arg>>

\* The flags of control i that a step changes.
FlagsChanged(i) ==
  { f \in {"onHover", "onClick", "onFocus"} : controls'[i][f] # controls[i][f] }

\* C17: each interaction flag is changed only by its own event kind: a
\* pointer-move changes no pressed or focused flag, a pointer-down no hover
\* flag, a pointer-up no hover or focused flag, and character, key-down and
\* paint events change no flag of any control.
C17_FlagsChangedByOwnEvent ==
  [][ \A i \in Indices :
        /\ last'.msg = "WM_MOUSEMOVE" => FlagsChanged(i) \subseteq {"onHover"}
        /\ last'.msg = "WM_LBUTTONDOWN" => "onHover" \notin FlagsChanged(i)
        /\ last'.msg = "WM_LBUTTONUP" => FlagsChanged(i) \subseteq {"onClick"}
        /\ last'.msg \in {"WM_CHAR", "WM_KEYDOWN", "WM_PAINT"}
             => FlagsChanged(i) = {} ]_vars

\* After a pointer-down a control is pressed and focused and, no pointer-move
\* having reached it, still not hovered.
C17_Witness ==
  /\ last.msg = "WM_LBUTTONDOWN"
  /\ \E i \in Indices :
       /\ controls[i].onClick /\ controls[i].onFocus
       /\ ~controls[i].onHover

\* Two areas share a strictly interior point.
Overlap(a, b) ==
  LET l == IF a.left > b.left THEN a.left ELSE b.left
      r == IF a.right < b.right THEN a.right ELSE b.right
      t == IF a.top > b.top THEN a.top ELSE b.top
      d == IF a.bottom < b.bottom THEN a.bottom ELSE b.bottom
  IN  l < r /\ t < d

NoOverlap ==
  \A i, j \in Indices : i # j => ~Overlap(controls[i].area, controls[j].area)

\* C18: if no two registered controls have bounds sharing a strictly interior
\* point, then at most one control is focused.
C18_DisjointAtMostOneFocused ==
  NoOverlap => Cardinality(FocusedSet) <= 1

\* Of two controls with disjoint bounds the one under the last pointer-down
\* holds the focus, and the other one, pressed by an earlier pointer-down,
\* has lost it.
C18_Witness ==
  /\ Len(controls) = 2
  /\ NoOverlap
  /\ last.msg = "WM_LBUTTONDOWN"
  /\ \E i, j \in Indices :
       /\ controls[i].onFocus
       /\ controls[j].onClick /\ ~controls[j].onFocus

\* C19: under container dispatch a control's text changes only in a
\* character or key-down event at whose start that control is a TextBox and
\* the first focused control in insertion order; pointer and paint events
\* change no text.  A control is constructed unfocused with empty text and
\* its focused flag rises only in a pointer-down inside its bounds, so a
\* TextBox that never received such a pointer-down keeps empty text.
C19_TextChangesOnlyWhenFirstFocused ==
  [][ /\ \A i \in Indices :
           /\ controls'[i].text # controls[i].text
                => /\ last'.msg \in {"WM_CHAR", "WM_KEYDOWN"}
                   /\ controls[i].kind = "TextBox"
                   /\ FirstFocused = i
           /\ (~controls[i].onFocus /\ controls'[i].onFocus)
                => /\ last'.msg = "WM_LBUTTONDOWN"
                   /\ StrictlyInside(controls[i].area, last'.x, last'.y)
      /\ last'.msg = "new"
           => /\ controls'[Len(controls')].text = <<>>
              /\ ~controls'[Len(controls')].onFocus ]_vars

\* A character has been appended to the TextBox that is the first focused
\* control, while the TextBox registered after it, focused too, stays empty.
C19_Witness ==
  /\ last.msg = "WM_CHAR"
  /\ Len(controls) = 2
  /\ controls[1].kind = "TextBox" /\ controls[2].kind = "TextBox"
  /\ FocusedSet = {1, 2}
  /\ controls[1].text # <<>>
  /\ controls[2].text = <<>>

====
